---------------------------- MODULE Spec2Model ----------------------------
(***************************************************************************)
(* The ranking engine of Neo4jGraphManager (src/GraphManager.py): the      *)
(* native attempt of calculate_pagerank, its catch-all fallback, and the   *)
(* round-trips of _custom_pagerank_implementation against a store that is  *)
(* shared by every request of the Flask application (src/app.py).          *)
(*                                                                         *)
(* Scores are exact rationals <<numerator, denominator>> in lowest terms   *)
(* (floating-point rounding is not modelled); an absent property is Null,  *)
(* as in Cypher.                                                           *)
(***************************************************************************)
EXTENDS Integers, Sequences, FiniteSets, TLC

\* ------------------------------------------------------------------ bounds

\* The largest iteration count a request asks for.
MaxIter == 2

\* Account names a graph may hold, and the requests served by the application.
Names == {"A", "B", "C"}
Requests == {"r1", "r2"}

\* ------------------------------------------------------------- rationals

Null == <<>>

RECURSIVE GCD(_, _)
GCD(a, b) == IF b = 0 THEN a ELSE GCD(b, a % b)

Norm(n, d) == LET g == GCD(n, d) IN <<n \div g, d \div g>>

LCM(a, b) == (a \div GCD(a, b)) * b

Zero == <<0, 1>>
One == <<1, 1>>

Add(x, y) == LET l == LCM(x[2], y[2])
             IN Norm(x[1] * (l \div x[2]) + y[1] * (l \div y[2]), l)

Mul(x, y) == LET g1 == GCD(x[1], y[2])
                 g2 == GCD(y[1], x[2])
             IN Norm((x[1] \div g1) * (y[1] \div g2), (x[2] \div g2) * (y[2] \div g1))

DivInt(x, k) == Mul(x, <<1, k>>)

OneMinus(x) == Norm(x[2] - x[1], x[2])

Less(x, y) == LET l == LCM(x[2], y[2])
              IN x[1] * (l \div x[2]) < y[1] * (l \div y[2])

\* ------------------------------------------------------------ parameters

\* damping values a request passes (src/app.py: request.args "damping"),
\* 0.85 being the default of calculate_pagerank.
Half == <<1, 2>>
DefaultDamping == <<17, 20>>
DefaultIterations == 20

\* The (iterations, damping) pairs requests are drawn from.
Params == ((1..MaxIter) \X {Half}) \cup {<<1, DefaultDamping>>}

\* The graphs a run starts from: accounts, and Follows edges between distinct
\* accounts (follow_account creates no other edge).
Edges(acc) == {e \in acc \X acc : e[1] # e[2]}

\* ----------------------------------------------------------------- state

VARIABLES
    accounts,      \* names of the Account nodes in the store
    follows,       \* Follows edges <<follower, followee>>
    pagerank,      \* property a.pagerank of each account (Null: absent)
    prevPagerank,  \* property a.prevPagerank of each account (Null: absent)
    gds,           \* whether the store has the GDS library
    projected,     \* whether the GDS catalog holds the projection 'socialGraph'
    pc,            \* per request: the round-trip it issues next
    args,          \* per request: <<iterations, damping>> of calculate_pagerank
    cargs,         \* per request: <<iterations, damping>> of the custom protocol
    i,             \* per request: the loop variable of the iteration loop
    total_nodes,   \* per request: the local total_nodes (-1 before the init step)
    results,       \* per request: the rows it returns
    err,           \* per request: the failure it raised, <<query, kind>>
    log,           \* per request: the queries it has issued, in order
    nativeErr,     \* per request: the kind of failure of its native attempt
    overlapped,    \* per request: whether another request was in flight with it
    stalled,       \* per request: whether a non-final round left every score unchanged
    posts,         \* post_id of the Post nodes in the store
    authored,      \* Posts edges <<account, post_id>>
    likes,         \* <<account, post_id>> joined by a Likes relationship
    since,         \* per <<follower, followee>>: r.since of each Follows relationship between them
    likedAt,       \* per <<account, post_id>>: r.timestamp of each Likes relationship between them
    createdBy,     \* per post_id: the account_name of the add_post call that created the node
    now,           \* what datetime() returns
    resp,          \* what the last call of a graph operation returned
    profile_string,   \* the profile text parse_profile_metrics was called with
    metrics,          \* its metrics dictionary
    operator_blocks,  \* the operator blocks its loop has yet to visit
    operators,        \* its list of per-operator statistics
    parse_pc,         \* the statement it is at
    driver            \* graph_manager.driver: "open", or "closed" once close() was called

vars == <<accounts, follows, pagerank, prevPagerank, gds, projected, pc, args, cargs,
          i, total_nodes, results, err, log, nativeErr, overlapped, stalled,
          posts, authored, likes, since, likedAt, createdBy, now, resp,
          profile_string, metrics, operator_blocks, operators, parse_pc, driver>>

store == <<accounts, follows, pagerank, prevPagerank, gds, projected>>

\* Posts, likes and relationship properties, which the ranking never touches,
\* and the state of the ranking requests, which the graph operations never touch.
social == <<posts, authored, likes, since, likedAt, createdBy, now, resp>>
ranking == <<pagerank, prevPagerank, gds, projected, pc, args, cargs, i, total_nodes,
             results, err, log, nativeErr, overlapped, stalled>>

\* The state of a parse_profile_metrics call, which touches no store.
parser == <<profile_string, metrics, operator_blocks, operators, parse_pc>>

PostIds == {"p1", "p2"}
FollowPairs == Names \X Names
LikePairs == Names \X PostIds
NoResp == [op |-> "none", args |-> <<>>, ok |-> TRUE, rows |-> <<>>, at |-> 0]

\* ------------------------------------------------- regular expressions

\* A pattern is a sequence of items, matched with backtracking in the order
\* of preference of Python's re: an item is a literal, a run of characters of
\* one class (greedy or lazy), one character of a class, an alternation of
\* literals, or the lookahead (?=\+|$). A position counts the characters
\* consumed so far.
Char(s, k) == SubSeq(s, k, k)

Digits == "0123456789"
UpperCase == "ABCDEFGHIJKLMNOPQRSTUVWXYZ"
LowerCase == "abcdefghijklmnopqrstuvwxyz"

Among(c, s) == \E k \in 1..Len(s) : Char(s, k) = c

\* re.IGNORECASE compares characters with their case folded.
Fold(c) ==
    IF Among(c, UpperCase)
    THEN Char(LowerCase, CHOOSE k \in 1..Len(UpperCase) : Char(UpperCase, k) = c)
    ELSE c

InClass(cls, c) ==
    CASE cls = "\\d" -> Among(c, Digits)
      [] cls = "\\w" -> Among(c, Digits) \/ Among(c, UpperCase) \/ Among(c, LowerCase) \/ c = "_"
      [] cls = "\\s" -> Among(c, " \n\t\r\f")
      [] cls = "." -> c # "\n"
      [] cls = ".DOTALL" -> TRUE
      [] cls = "[^+]" -> c # "+"
      [] cls = "\\-" -> c = "-"
      [] cls = "[A-Za-z]" -> Among(c, UpperCase) \/ Among(c, LowerCase)
      [] cls = "[\\d\\.]" -> Among(c, Digits) \/ c = "."
      [] cls = "[KMG]i" -> Among(Fold(c), "kmg")

Lit(s) == [k |-> "lit", s |-> s, ic |-> FALSE]
LitI(s) == [k |-> "lit", s |-> s, ic |-> TRUE]
AltI(ss) == [k |-> "alt", ss |-> ss]
OneOf(cls) == [k |-> "one", c |-> cls]
Star(cls) == [k |-> "run", c |-> cls, min |-> 0, greedy |-> TRUE]
Plus(cls) == [k |-> "run", c |-> cls, min |-> 1, greedy |-> TRUE]
PlusLazy(cls) == [k |-> "run", c |-> cls, min |-> 1, greedy |-> FALSE]
LookPlusOrEnd == [k |-> "look"]

LitAt(s, p, lit, ic) ==
    /\ p + Len(lit) <= Len(s)
    /\ \A k \in 1..Len(lit) :
          IF ic THEN Fold(Char(s, p + k)) = Fold(Char(lit, k))
          ELSE Char(s, p + k) = Char(lit, k)

\* The number of characters of the class that follow position p: the first
\* count at which the text ends or a character of another class comes.
RunStops(s, p, cls, r) == p + r = Len(s) \/ ~InClass(cls, Char(s, p + r + 1))

RunLen(s, p, cls) ==
    CHOOSE r \in 0..(Len(s) - p) :
        RunStops(s, p, cls, r) /\ \A h \in 0..(r - 1) : ~RunStops(s, p, cls, h)

\* $ matches at the end of the text and before a newline that ends it.
AtEnd(s, p) == p = Len(s) \/ (p = Len(s) - 1 /\ Char(s, Len(s)) = "\n")

\* The positions an item can end at when it starts at p, preferred first.
Ends(item, s, p) ==
    CASE item.k = "lit" -> IF LitAt(s, p, item.s, item.ic) THEN <<p + Len(item.s)>> ELSE <<>>
      [] item.k = "alt" ->
            LET hit == SelectSeq(item.ss, LAMBDA lit : LitAt(s, p, lit, TRUE))
            IN  [j \in 1..Len(hit) |-> p + Len(hit[j])]
      [] item.k = "one" ->
            IF p < Len(s) /\ InClass(item.c, Char(s, p + 1)) THEN <<p + 1>> ELSE <<>>
      [] item.k = "run" ->
            LET r == RunLen(s, p, item.c)
            IN  IF r < item.min THEN <<>>
                ELSE [j \in 1..(r - item.min + 1) |->
                        IF item.greedy THEN p + r - (j - 1) ELSE p + item.min + (j - 1)]
      [] item.k = "look" ->
            IF AtEnd(s, p) \/ (p < Len(s) /\ Char(s, p + 1) = "+") THEN <<p>> ELSE <<>>

\* Whether items k.. match at position p.
RECURSIVE Feasible(_, _, _, _)
Feasible(items, k, s, p) ==
    \/ k > Len(items)
    \/ LET ends == Ends(items[k], s, p)
       IN  \E j \in 1..Len(ends) : Feasible(items, k + 1, s, ends[j])

\* The end of item k at position p in the match Python prefers: the first
\* of its ends from which the items after it match.
PreferredEnd(items, k, s, p) ==
    LET ends == Ends(items[k], s, p)
    IN  ends[CHOOSE j \in 1..Len(ends) :
                /\ Feasible(items, k + 1, s, ends[j])
                /\ \A h \in 1..(j - 1) : ~Feasible(items, k + 1, s, ends[h])]

\* The preferred match of items k.., which match at position p: the position
\* before each item and after the last.
RECURSIVE MatchFrom(_, _, _, _)
MatchFrom(items, k, s, p) ==
    IF k > Len(items) THEN <<p>>
    ELSE <<p>> \o MatchFrom(items, k + 1, s, PreferredEnd(items, k, s, p))

\* re.search: the match at the leftmost position, from position p on, or <<>>.
Search(items, s, p) ==
    IF \E q \in p..Len(s) : Feasible(items, 1, s, q)
    THEN MatchFrom(items, 1, s,
            CHOOSE q \in p..Len(s) :
                /\ Feasible(items, 1, s, q)
                /\ \A h \in p..(q - 1) : ~Feasible(items, 1, s, h))
    ELSE <<>>

\* The text that items a..b of match m cover (a capturing group).
Group(s, m, a, b) == SubSeq(s, m[a] + 1, m[b + 1])

\* re.findall for a pattern with one group: the group of each match, each
\* search starting where the match before it ended.
RECURSIVE FindAll(_, _, _, _, _)
FindAll(items, a, b, s, p) ==
    LET m == Search(items, s, p)
    IN  IF m = <<>> THEN <<>>
        ELSE <<Group(s, m, a, b)>> \o FindAll(items, a, b, s, m[Len(m)])

\* int(text) raises ValueError on a run of more than MaxStrDigits digits (the
\* interpreter's limit for converting a string to an integer).
MaxStrDigits == 4300

IntRaises(s) == Len(s) > MaxStrDigits

\* int(text) of a run of digits that int accepts.
RECURSIVE ToInt(_)
ToInt(s) ==
    IF Len(s) = 0 THEN 0
    ELSE 10 * ToInt(SubSeq(s, 1, Len(s) - 1))
         + (CHOOSE d \in 0..9 : Char(Digits, d + 1) = Char(s, Len(s)))

RECURSIVE Pow10(_)
Pow10(n) == IF n = 0 THEN 1 ELSE 10 * Pow10(n - 1)

\* float(text) of digits "." digits, as an exact rational.
ToFloat(s) ==
    LET dot == CHOOSE k \in 1..Len(s) : Char(s, k) = "."
        frac == SubSeq(s, dot + 1, Len(s))
    IN  Norm(ToInt(SubSeq(s, 1, dot - 1)) * Pow10(Len(frac)) + ToInt(frac), Pow10(Len(frac)))

\* ------------------------------------------------- parse_profile_metrics

\* The patterns of parse_profile_metrics, each with the items of its groups.
TimePattern ==
    <<Lit("Cypher version:"), Plus(".DOTALL"), Lit(", planner: "), Plus("\\w"),
      Lit(", runtime: "), Plus("\\w"), Lit(". "), Plus("\\d"),
      Lit(" total db hits in "), Plus("\\d"), Lit("."), Plus("\\d"), Lit(" ms.")>>

PlanningPattern == <<Lit("planning: "), Plus("\\d"), Lit("."), Plus("\\d"), Lit(" ms")>>

MemoryPattern ==
    <<LitI("memory"), Star("\\s"), Lit("["), Star("\\s"),
      Plus("[\\d\\.]"), Star("\\s"), OneOf("[KMG]i"), LitI("B"),
      Star("\\s"), Lit("]")>>

BlockPattern == <<Lit("+"), Star("\\-"), PlusLazy("[^+]"), LookPlusOrEnd>>

NamePattern == <<Plus("[A-Za-z]")>>

DbHitsPattern ==
    <<LitI("db hits"), Star("\\s"), Lit("["), Star("\\s"), Plus("\\d"), Star("\\s"), Lit("]")>>

RowsPattern ==
    <<LitI("rows"), Star("\\s"), Lit("["), Star("\\s"), Plus("\\d"), Star("\\s"), Lit("]")>>

ElapsedPattern ==
    <<LitI("elapsed"), Star("\\s"), Lit("["), Star("\\s"), Plus("\\d"), Star("\\s"),
      LitI("ms"), Star("\\s"), Lit("]")>>

IndexPattern ==
    <<AltI(<<"Index", "NodeIndexSeek">>), Plus("."), Lit("("), PlusLazy("."), Lit(")")>>

CacheHitsPattern == <<LitI("cache hits: "), Plus("\\d")>>

CacheMissesPattern == <<LitI("cache misses: "), Plus("\\d")>>

\* The metrics a call starts from.
DefaultMetrics ==
    [db_hits |-> 0, rows |-> 0, elapsed_time_ms |-> 0, memory_usage |-> "",
     operators |-> <<>>, total_db_hits |-> 0, query_time_ms |-> Zero,
     planning_time_ms |-> Zero, indexes_used |-> <<>>, cache_hits |-> 0,
     cache_misses |-> 0]

\* max(metrics["elapsed_time_ms"], elapsed)
MaxAsSum(a, b) == a + b
Max(a, b) == IF a >= b THEN a ELSE b

InSeq(x, s) == \E k \in 1..Len(s) : s[k] = x

NotParsing ==
    /\ profile_string = ""
    /\ metrics = DefaultMetrics
    /\ operator_blocks = <<>>
    /\ operators = <<>>
    /\ parse_pc = "idle"

ParseStep(from, to) == parse_pc = from /\ parse_pc' = to /\ UNCHANGED <<profile_string, store, social, ranking, driver>>

\* An int() of the call raises: the exception leaves parse_profile_metrics
\* and the call returns no metrics.
Raise(from) ==
    /\ parse_pc = from /\ parse_pc' = "raised"
    /\ UNCHANGED <<metrics, profile_string, store, social, ranking, driver>>

\* The group a pattern hands to int() is longer than int() accepts.
GroupRaises(pattern, text, g) ==
    LET m == Search(pattern, text, 0)
    IN  m # <<>> /\ IntRaises(Group(text, m, g, g))

time_match ==
    /\ IF GroupRaises(TimePattern, profile_string, 8) THEN Raise("time")
       ELSE /\ ParseStep("time", "planning")
            /\ LET m == Search(TimePattern, profile_string, 0)
               IN  metrics' = IF m = <<>> THEN metrics
                              ELSE [metrics EXCEPT
                                      !.total_db_hits = ToInt(Group(profile_string, m, 8, 8)),
                                      !.query_time_ms = ToFloat(Group(profile_string, m, 10, 12))]
    /\ UNCHANGED <<operator_blocks, operators>>

planning_match ==
    /\ ParseStep("planning", "memory")
    /\ LET m == Search(PlanningPattern, profile_string, 0)
       IN  metrics' = IF m = <<>> THEN metrics
                      ELSE [metrics EXCEPT
                              !.planning_time_ms = ToFloat(Group(profile_string, m, 2, 4))]
    /\ UNCHANGED <<operator_blocks, operators>>

memory_match ==
    /\ ParseStep("memory", "blocks")
    /\ LET m == Search(MemoryPattern, profile_string, 0)
       IN  metrics' = IF m = <<>> THEN metrics
                      ELSE [metrics EXCEPT !.memory_usage = Group(profile_string, m, 5, 8)]
    /\ UNCHANGED <<operator_blocks, operators>>

find_operator_blocks ==
    /\ ParseStep("blocks", "block")
    /\ operator_blocks' = FindAll(BlockPattern, 3, 3, profile_string, 0)
    /\ operators' = <<>>
    /\ UNCHANGED metrics

\* The statistics of one block, 0 where its pattern does not match.
BlockNumber(pattern, block) ==
    LET m == Search(pattern, block, 0)
    IN  IF m = <<>> THEN 0 ELSE ToInt(Group(block, m, 5, 5))

Matches(pattern, block) == Search(pattern, block, 0) # <<>>

\* metrics["rows"] after a block: set only where the block has a row count.
RowsAfter(old, block) ==
    IF Matches(RowsPattern, block) THEN BlockNumber(RowsPattern, block) ELSE old

IndexesAfter(old, block) ==
    LET m == Search(IndexPattern, block, 0)
    IN  IF m # <<>> /\ ~InSeq(Group(block, m, 4, 4), old)
        THEN Append(old, Group(block, m, 4, 4)) ELSE old

\* One of the three int() calls on a block raises.
BlockRaises(block) ==
    \/ GroupRaises(DbHitsPattern, block, 5)
    \/ GroupRaises(RowsPattern, block, 5)
    \/ GroupRaises(ElapsedPattern, block, 5)

\* One turn of the loop over operator_blocks.
for_block ==
    /\ parse_pc = "block" /\ operator_blocks # <<>>
    /\ LET block == Head(operator_blocks)
           name_match == Search(NamePattern, block, 0)
       IN  IF BlockRaises(block)
           THEN Raise("block") /\ UNCHANGED <<operator_blocks, operators>>
           ELSE
           /\ metrics' = [metrics EXCEPT
                  !.db_hits = @ + BlockNumber(DbHitsPattern, block),
                  !.rows = RowsAfter(@, block),
                  !.elapsed_time_ms = Max(@, BlockNumber(ElapsedPattern, block)),
                  !.indexes_used = IndexesAfter(@, block)]
           /\ operators' = Append(operators,
                  [name |-> IF name_match = <<>> THEN "" ELSE Group(block, name_match, 1, 1),
                   db_hits |-> BlockNumber(DbHitsPattern, block),
                   rows |-> BlockNumber(RowsPattern, block),
                   elapsed_ms |-> BlockNumber(ElapsedPattern, block)])
           /\ operator_blocks' = Tail(operator_blocks)
           /\ UNCHANGED <<parse_pc, profile_string, store, social, ranking, driver>>

end_of_blocks ==
    /\ parse_pc = "block" /\ operator_blocks = <<>>
    /\ parse_pc' = "cache_hits"
    /\ metrics' = [metrics EXCEPT !.operators = operators]
    /\ UNCHANGED <<profile_string, operator_blocks, operators, store, social, ranking, driver>>

cache_hits_match ==
    /\ IF GroupRaises(CacheHitsPattern, profile_string, 2) THEN Raise("cache_hits")
       ELSE /\ ParseStep("cache_hits", "cache_misses")
            /\ LET m == Search(CacheHitsPattern, profile_string, 0)
               IN  metrics' = IF m = <<>> THEN metrics
                              ELSE [metrics EXCEPT !.cache_hits = ToInt(Group(profile_string, m, 2, 2))]
    /\ UNCHANGED <<operator_blocks, operators>>

cache_misses_match ==
    /\ IF GroupRaises(CacheMissesPattern, profile_string, 2) THEN Raise("cache_misses")
       ELSE /\ ParseStep("cache_misses", "returned")
            /\ LET m == Search(CacheMissesPattern, profile_string, 0)
               IN  metrics' = IF m = <<>> THEN metrics
                              ELSE [metrics EXCEPT !.cache_misses = ToInt(Group(profile_string, m, 2, 2))]
    /\ UNCHANGED <<operator_blocks, operators>>

\* No failure kind (a string), and no tuple (arguments, an error).
None == "none"
Nil == <<>>

InFlight == {"native", "init", "snapshot", "update", "read", "cleanup"}

Init ==
    /\ accounts \in SUBSET Names
    /\ follows \in SUBSET Edges(accounts)
    /\ pagerank = [a \in Names |-> Null]
    /\ prevPagerank = [a \in Names |-> Null]
    /\ gds \in BOOLEAN
    /\ projected = FALSE
    /\ pc = [r \in Requests |-> "idle"]
    /\ args = [r \in Requests |-> Nil]
    /\ cargs = [r \in Requests |-> Nil]
    /\ i = [r \in Requests |-> 0]
    /\ total_nodes = [r \in Requests |-> -1]
    /\ results = [r \in Requests |-> <<>>]
    /\ err = [r \in Requests |-> Nil]
    /\ log = [r \in Requests |-> <<>>]
    /\ nativeErr = [r \in Requests |-> None]
    /\ overlapped = [r \in Requests |-> FALSE]
    /\ stalled = [r \in Requests |-> FALSE]
    /\ posts = {}
    /\ authored = {}
    /\ likes = {}
    /\ since = [e \in FollowPairs |-> IF e \in follows THEN <<0>> ELSE <<>>]
    /\ likedAt = [e \in LikePairs |-> <<>>]
    /\ createdBy = [p \in PostIds |-> None]
    /\ now = 0
    /\ resp = NoResp
    /\ driver = "open"
    /\ NotParsing

\* ------------------------------------------------- the Cypher queries

Append1(r, q) == [log EXCEPT ![r] = Append(@, q)]

FollowersAnyAccount(a, acc, fol) == acc \ {a}
Followers(a, acc, fol) == {f \in acc : <<f, a>> \in fol}

OutDegree(f, fol) == Cardinality({e \in fol : e[1] = f})

\* CASE WHEN outlinks_count > 0 THEN f.prevPagerank / outlinks_count ELSE 0 END
\* (an arithmetic on an absent property yields null).
Contribution(f, fol, prev) ==
    IF OutDegree(f, fol) > 0
    THEN IF prev[f] = Null THEN Null ELSE DivInt(prev[f], OutDegree(f, fol))
    ELSE Zero

\* SUM(...) over the rows of one account: nulls are skipped.
RECURSIVE IncomingScore(_, _, _)
IncomingScore(fs, fol, prev) ==
    IF fs = {} THEN Zero
    ELSE LET f == CHOOSE x \in fs : TRUE
             c == Contribution(f, fol, prev)
             rest == IncomingScore(fs \ {f}, fol, prev)
         IN IF c = Null THEN rest ELSE Add(c, rest)

\* UNWIND followers AS f: an account whose followers list is empty yields no
\* row, so the SET that ends the query never reaches it.
UnwoundAccounts(acc, fol) == {a \in acc : Followers(a, acc, fol) # {}}

\* iteration_query: SET a.pagerank = base_score + damping * incoming_score
IterationQuery(acc, fol, prev, cur, d) ==
    [a \in Names |->
        IF a \in UnwoundAccounts(acc, fol)
        THEN Add(OneMinus(d), Mul(d, IncomingScore(Followers(a, acc, fol), fol, prev)))
        ELSE cur[a]]

\* ORDER BY pagerank DESC: a null sorts first; rows of equal score come in
\* an order the store chooses.
NotBelow(x, y) == x = Null \/ (y # Null /\ ~Less(x, y))

OrderingsUnsorted(acc, pr) ==
    {s \in [1..Cardinality(acc) -> acc] :
        \A m, n \in 1..Cardinality(acc) : m # n => s[m] # s[n]}
Orderings(acc, pr) ==
    {s \in [1..Cardinality(acc) -> acc] :
        /\ \A m, n \in 1..Cardinality(acc) : m # n => s[m] # s[n]
        /\ \A m, n \in 1..Cardinality(acc) : m < n => NotBelow(pr[s[m]], pr[s[n]])}

Rows(s, pr) == [n \in 1..Len(s) |-> <<s[n], pr[s[n]]>>]

\* The rows of gds.pageRank.stream: the scores are GDS's own and are kept opaque.
GdsScore == <<0, 0>>
RECURSIVE SeqOf(_)
SeqOf(S) == IF S = {} THEN <<>>
            ELSE LET x == CHOOSE y \in S : TRUE IN <<x>> \o SeqOf(S \ {x})
NativeRows(acc) == [n \in 1..Cardinality(acc) |-> <<SeqOf(acc)[n], GdsScore>>]

\* ------------------------------------------------------ control flow

\* return self._custom_pagerank_implementation(iterations, damping)
FallbackDefaults(it, d) == <<DefaultIterations, DefaultDamping>>
Fallback(it, d) == <<it, d>>

\* for i in range(iterations): the loop looks at no score.
EnterLoop(it) == IF 0 < it THEN "snapshot" ELSE "read"

\* if total_nodes == 0: return []
AfterInitUnguarded(n, it) == EnterLoop(it)
AfterInit(n, it) == IF n = 0 THEN "returned" ELSE EnterLoop(it)

AfterRoundConverged(k, it, before, after) ==
    IF k < it /\ before # after THEN "snapshot" ELSE "read"
AfterRoundOnceMore(k, it, before, after) == IF k <= it THEN "snapshot" ELSE "read"
AfterRound(k, it, before, after) == IF k < it THEN "snapshot" ELSE "read"

\* ----------------------------------------------------------- actions

\* A request enters calculate_pagerank(iterations, damping).
calculate_pagerank(r, p) ==
    /\ pc[r] = "idle"
    /\ pc' = [pc EXCEPT ![r] = "native"]
    /\ args' = [args EXCEPT ![r] = p]
    /\ overlapped' = [q \in Requests |->
                        IF \E o \in Requests \ {r} : pc[o] \in InFlight
                        THEN (q = r \/ pc[q] \in InFlight \/ overlapped[q])
                        ELSE overlapped[q]]
    /\ UNCHANGED <<store, social, parser, driver, cargs, i, total_nodes, results, err, log, nativeErr, stalled>>

\* The GDS query succeeds: the projection is created and the stream returned.
native_ok(r) ==
    /\ pc[r] = "native"
    /\ gds /\ ~projected
    /\ projected' = TRUE
    /\ results' = [results EXCEPT ![r] = NativeRows(accounts)]
    /\ pc' = [pc EXCEPT ![r] = "returned"]
    /\ log' = Append1(r, "native")
    /\ UNCHANGED <<social, parser, driver, accounts, follows, pagerank, prevPagerank, gds, args, cargs, i,
                   total_nodes, err, nativeErr, overlapped, stalled>>

\* The GDS query raises: except Exception catches it, whatever it is, and the
\* custom protocol is called.
NativeFailures == {"unsupported", "execution", "unavailable"}

native_fail(r, k) ==
    /\ pc[r] = "native"
    /\ k = "unsupported" => ~gds
    /\ k = "execution" => gds
    /\ nativeErr' = [nativeErr EXCEPT ![r] = k]
    /\ cargs' = [cargs EXCEPT ![r] = Fallback(args[r][1], args[r][2])]
    /\ pc' = [pc EXCEPT ![r] = "init"]
    /\ log' = Append1(r, "native")
    /\ UNCHANGED <<store, social, parser, driver, args, i, total_nodes, results, err, overlapped, stalled>>

init_query(r) ==
    /\ pc[r] = "init"
    /\ pagerank' = [a \in Names |-> IF a \in accounts THEN One ELSE pagerank[a]]
    /\ prevPagerank' = [a \in Names |-> IF a \in accounts THEN Zero ELSE prevPagerank[a]]
    /\ total_nodes' = [total_nodes EXCEPT ![r] = Cardinality(accounts)]
    /\ pc' = [pc EXCEPT ![r] = AfterInit(Cardinality(accounts), cargs[r][1])]
    /\ results' = [results EXCEPT ![r] = <<>>]
    /\ i' = [i EXCEPT ![r] = 0]
    /\ log' = Append1(r, "init")
    /\ UNCHANGED <<social, parser, driver, accounts, follows, gds, projected, args, cargs, err, nativeErr,
                   overlapped, stalled>>

update_prev_query(r) ==
    /\ pc[r] = "snapshot"
    /\ prevPagerank' = [a \in Names |-> IF a \in accounts THEN pagerank[a] ELSE prevPagerank[a]]
    /\ pc' = [pc EXCEPT ![r] = "update"]
    /\ log' = Append1(r, "snapshot")
    /\ UNCHANGED <<social, parser, driver, accounts, follows, pagerank, gds, projected, args, cargs, i, total_nodes,
                   results, err, nativeErr, overlapped, stalled>>

iteration_query(r) ==
    /\ pc[r] = "update"
    /\ pagerank' = IterationQuery(accounts, follows, prevPagerank, pagerank, cargs[r][2])
    /\ i' = [i EXCEPT ![r] = @ + 1]
    /\ pc' = [pc EXCEPT ![r] = AfterRound(i[r] + 1, cargs[r][1], pagerank, pagerank')]
    /\ stalled' = [stalled EXCEPT ![r] = @ \/ (pagerank' = pagerank /\ i[r] + 1 < cargs[r][1])]
    /\ log' = Append1(r, "update")
    /\ UNCHANGED <<social, parser, driver, accounts, follows, prevPagerank, gds, projected, args, cargs, total_nodes,
                   results, err, nativeErr, overlapped>>

result_query(r) ==
    /\ pc[r] = "read"
    /\ \E s \in Orderings(accounts, pagerank) :
          results' = [results EXCEPT ![r] = Rows(s, pagerank)]
    /\ pc' = [pc EXCEPT ![r] = "cleanup"]
    /\ log' = Append1(r, "read")
    /\ UNCHANGED <<store, social, parser, driver, args, cargs, i, total_nodes, err, nativeErr, overlapped, stalled>>

cleanup_query(r) ==
    /\ pc[r] = "cleanup"
    /\ pagerank' = [a \in Names |-> IF a \in accounts THEN Null ELSE pagerank[a]]
    /\ prevPagerank' = [a \in Names |-> IF a \in accounts THEN Null ELSE prevPagerank[a]]
    /\ pc' = [pc EXCEPT ![r] = "returned"]
    /\ log' = Append1(r, "cleanup")
    /\ UNCHANGED <<social, parser, driver, accounts, follows, gds, projected, args, cargs, i, total_nodes, results,
                   err, nativeErr, overlapped, stalled>>

\* A round-trip of the custom protocol raises (the store is unreachable, or it
\* rejects the query): nothing catches it, the call ends there.
QueryFailures == {"unavailable", "query"}

query_fails(r, k) ==
    /\ pc[r] \in InFlight \ {"native"}
    /\ err' = [err EXCEPT ![r] = <<pc[r], k>>]
    /\ pc' = [pc EXCEPT ![r] = "raised"]
    /\ log' = Append1(r, pc[r])
    /\ UNCHANGED <<store, social, parser, driver, args, cargs, i, total_nodes, results, nativeErr, overlapped, stalled>>

\* get_pagerank answers the request with the rows, or with the error (400):
\* the call is over and its locals are gone.
respond(r) ==
    /\ pc[r] \in {"returned", "raised"}
    /\ pc' = [pc EXCEPT ![r] = "idle"]
    /\ args' = [args EXCEPT ![r] = Nil]
    /\ cargs' = [cargs EXCEPT ![r] = Nil]
    /\ i' = [i EXCEPT ![r] = 0]
    /\ total_nodes' = [total_nodes EXCEPT ![r] = -1]
    /\ results' = [results EXCEPT ![r] = <<>>]
    /\ err' = [err EXCEPT ![r] = Nil]
    /\ log' = [log EXCEPT ![r] = <<>>]
    /\ nativeErr' = [nativeErr EXCEPT ![r] = None]
    /\ overlapped' = [overlapped EXCEPT ![r] = FALSE]
    /\ stalled' = [stalled EXCEPT ![r] = FALSE]
    /\ UNCHANGED <<store, social, parser, driver>>

\* No other request is being served.
Serial(r) == \A o \in Requests \ {r} : pc[o] = "idle"

\* Requests served one at a time.
Next ==
    \E r \in Requests :
        \/ \E p \in Params : Serial(r) /\ calculate_pagerank(r, p)
        \/ native_ok(r)
        \/ \E k \in NativeFailures : native_fail(r, k)
        \/ init_query(r)
        \/ update_prev_query(r)
        \/ iteration_query(r)
        \/ result_query(r)
        \/ cleanup_query(r)
        \/ \E k \in QueryFailures : query_fails(r, k)
        \/ respond(r)

Spec == Init /\ [][Next]_vars

\* Requests served by concurrent threads of a store without the GDS library:
\* the round-trips of two calls interleave.
InitThreaded == Init /\ ~gds

NextThreaded ==
    \E r \in Requests :
        \/ \E p \in Params : calculate_pagerank(r, p)
        \/ native_fail(r, "unsupported")
        \/ init_query(r)
        \/ update_prev_query(r)
        \/ iteration_query(r)
        \/ result_query(r)
        \/ cleanup_query(r)

SpecThreaded == InitThreaded /\ [][NextThreaded]_vars

\* ------------------------------------------- a call computed on its own

\* The scores after k more rounds (update_prev_query, then iteration_query)
\* when no other request touches the store.
RECURSIVE RunRounds(_, _, _, _, _)
RunRounds(k, acc, fol, cur, d) ==
    IF k = 0 THEN cur
    ELSE RunRounds(k - 1, acc, fol, IterationQuery(acc, fol, cur, cur, d), d)

\* The rows _custom_pagerank_implementation(it, d) returns on its own, as a set.
AloneRows(acc, fol, it, d) ==
    LET final == RunRounds(it, acc, fol, [a \in Names |-> IF a \in acc THEN One ELSE Null], d)
    IN {<<a, final[a]>> : a \in acc}

RowSet(rows) == {rows[n] : n \in 1..Len(rows)}

Count(seq, q) == Cardinality({n \in 1..Len(seq) : seq[n] = q})

\* The call of r went through the custom protocol.
Custom(r) == nativeErr[r] # None

CustomRounds == InFlight \ {"native"}

\* ---------------------------------------------------------------- claims

\* C1: on a graph with at least one account and no Follows edge, the custom
\* protocol (any iterations >= 1, any damping) returns every account with
\* score exactly 1 - damping.
C1_NoFollowsBaseScore ==
    \A r \in Requests :
        (pc[r] = "returned" /\ Custom(r) /\ accounts # {} /\ follows = {} /\ ~overlapped[r])
        => /\ {row[1] : row \in RowSet(results[r])} = accounts
           /\ \A row \in RowSet(results[r]) : row[2] = OneMinus(cargs[r][2])

\* C2: on accounts A, B, C with Follows edges B->A, C->A, C->B, one iteration
\* with damping 0.85 returns A = 1.425, B = 0.575, C = 0.15, in that order.
C2_ThreeAccountRound ==
    \A r \in Requests :
        (/\ pc[r] = "returned" /\ Custom(r) /\ ~overlapped[r]
         /\ accounts = {"A", "B", "C"}
         /\ follows = {<<"B", "A">>, <<"C", "A">>, <<"C", "B">>}
         /\ cargs[r] = <<1, DefaultDamping>>)
        => results[r] = << <<"A", <<57, 40>>>>, <<"B", <<23, 40>>>>, <<"C", <<3, 20>>>> >>

\* C3: on a non-empty graph the custom protocol runs the update round exactly
\* `iterations` times: once the loop is left, `iterations` snapshots and
\* `iterations` updates have been issued, also when a round changed no score;
\* before that, never more.
C3_ExactlyIterationsRounds ==
    \A r \in Requests :
        Custom(r) =>
            /\ Count(log[r], "update") <= cargs[r][1]
            /\ (pc[r] \in {"read", "cleanup", "returned"} /\ total_nodes[r] > 0)
               => /\ Count(log[r], "update") = cargs[r][1]
                  /\ Count(log[r], "snapshot") = cargs[r][1]

C3_Witness ==
    \E r \in Requests :
        /\ pc[r] = "returned" /\ Custom(r) /\ stalled[r]
        /\ cargs[r][1] >= 2
        /\ Count(log[r], "update") = cargs[r][1]

\* C4: when a round-trip issued after the init step fails (a snapshot, an
\* update round, the final read), cleanup has still run and no account keeps
\* a pagerank or prevPagerank property.
C4_CleanupOnError ==
    \A r \in Requests :
        (pc[r] = "raised" /\ err[r][1] \in {"snapshot", "update", "read"} /\ ~overlapped[r])
        => \A a \in accounts : pagerank[a] = Null /\ prevPagerank[a] = Null

\* C5: after a ranking computation that returns normally, run alone, no
\* account carries a pagerank or prevPagerank property.
C5_NoRankLeftStored ==
    \A r \in Requests :
        (pc[r] = "returned" /\ ~overlapped[r])
        => \A a \in accounts : pagerank[a] = Null /\ prevPagerank[a] = Null

\* C6: at most one ranking computation is in flight at any time: no two
\* requests are inside the rounds of the custom protocol together.
C6_SingleFlight ==
    \A r, o \in Requests :
        r # o => ~(pc[r] \in CustomRounds /\ pc[o] \in CustomRounds)

\* C7: whatever the interleaving of two custom ranking calls, each returns
\* the scores it would return when run alone.
C7_Isolation ==
    \A r \in Requests :
        (pc[r] = "returned" /\ Custom(r) /\ total_nodes[r] > 0)
        => RowSet(results[r]) = AloneRows(accounts, follows, cargs[r][1], cargs[r][2])

\* C8: when the native attempt fails, whatever the failure, the call goes on
\* with the custom protocol on the same iterations and damping and returns
\* that protocol's result; the native failure is never what the call raises.
C8_NativeFailureFallsBack ==
    \A r \in Requests :
        Custom(r) =>
            /\ cargs[r] = args[r]
            /\ pc[r] = "init" \/ (Len(log[r]) >= 2 /\ log[r][2] = "init")
            /\ pc[r] = "raised" => err[r][1] # "native"
            /\ (pc[r] = "returned" /\ ~overlapped[r]) =>
                  RowSet(results[r]) = AloneRows(accounts, follows, args[r][1], args[r][2])

C8_Witness ==
    \E r \in Requests :
        /\ nativeErr[r] = "execution"
        /\ pc[r] = "returned"
        /\ results[r] # <<>>

\* C9: a StoreUnavailable failure of a round-trip of a ranking call, the
\* native attempt included, is what the call raises, and the call issues no
\* query after it.
C9_UnavailablePropagates ==
    \A r \in Requests :
        /\ nativeErr[r] = "unavailable"
           => pc[r] = "raised" /\ err[r] = <<"native", "unavailable">> /\ Len(log[r]) = 1
        /\ (err[r] # Nil /\ err[r][2] = "unavailable")
           => pc[r] = "raised" /\ log[r][Len(log[r])] = err[r][1]

\* C10: on a graph with zero accounts the custom protocol returns an empty
\* sequence right after the init step: no snapshot, no update round, no final
\* read, no cleanup, no error.
C10_EmptyGraphReturnsAtOnce ==
    \A r \in Requests :
        /\ total_nodes[r] = 0
           => /\ pc[r] = "returned"
              /\ results[r] = <<>>
              /\ log[r] = <<"native", "init">>
              /\ err[r] = Nil
        /\ (accounts = {} /\ Custom(r) /\ pc[r] # "init")
           => total_nodes[r] = 0 \/ (pc[r] = "raised" /\ err[r][1] = "init")

C10_Witness ==
    \E r \in Requests : total_nodes[r] = 0 /\ pc[r] = "returned" /\ accounts = {}

\* C11: the result of the custom protocol holds every account of the graph
\* exactly once (no limit is applied), ordered by score, descending.
C11_EveryAccountOnceDescending ==
    \A r \in Requests :
        (pc[r] \in {"cleanup", "returned"} /\ Custom(r) /\ total_nodes[r] > 0)
        => /\ Len(results[r]) = Cardinality(accounts)
           /\ {results[r][n][1] : n \in 1..Len(results[r])} = accounts
           /\ \A m, n \in 1..Len(results[r]) :
                (m < n /\ results[r][m][2] # Null /\ results[r][n][2] # Null)
                => ~Less(results[r][m][2], results[r][n][2])

C11_Witness ==
    \E r \in Requests :
        /\ pc[r] = "returned" /\ Custom(r)
        /\ Len(results[r]) = 3
        /\ Less(results[r][3][2], results[r][2][2])
        /\ Less(results[r][2][2], results[r][1][2])

\* ------------------------------------------------- the graph operations

\* The largest limit a request passes, and the latest value of the clock.
MaxLimit == 3
MaxTime == 1

Limits == 1..MaxLimit

\* Arguments of the calls: a name or a post_id need not exist in the store;
\* POST /api/posts passes post_id = None when the request has none.
NoPostId == "None"

\* The reply of a call and the time the store served it at.
Reply(op, a, ok, rows) == [op |-> op, args |-> a, ok |-> ok, rows |-> rows, at |-> now]

\* The sequences that hold each element of S once.
Arrangements(S) ==
    {s \in [1..Cardinality(S) -> S] :
        \A m, n \in 1..Cardinality(S) : m # n => s[m] # s[n]}

\* LIMIT $limit
Take(s, n) == SubSeq(s, 1, IF n < Len(s) THEN n ELSE Len(s))

RECURSIVE SumOver(_, _)
SumOver(S, f) ==
    IF S = {} THEN 0
    ELSE LET x == CHOOSE y \in S : TRUE IN f[x] + SumOver(S \ {x}, f)

\* CREATE (a:Account $properties), under the constraint account_name_unique.
add_account(name) ==
    /\ IF name \in accounts
       THEN /\ resp' = Reply("add_account", <<name>>, FALSE, <<>>)
            /\ UNCHANGED accounts
       ELSE /\ accounts' = accounts \cup {name}
            /\ resp' = Reply("add_account", <<name>>, TRUE, <<name>>)
    /\ UNCHANGED <<follows, posts, authored, likes, since, likedAt, createdBy, now, ranking, parser, driver>>

\* MATCH both accounts WHERE follower <> followee: without a row nothing
\* further runs and the result is {}.
FollowMatchesSelf(f, t) == f \in accounts /\ t \in accounts
FollowMatches(f, t) == f \in accounts /\ t \in accounts /\ f # t

\* MERGE (follower)-[r:Follows]->(followee) ON CREATE SET r.since = datetime():
\* the since values of the relationships between the pair after the MERGE.
FollowCreate(old, ts) == Append(old, ts)
FollowMerge(old, ts) == IF old = <<>> THEN <<ts>> ELSE old

follow_account(f, t) ==
    /\ IF FollowMatches(f, t)
       THEN /\ since' = [since EXCEPT ![<<f, t>>] = FollowMerge(@, now)]
            /\ follows' = follows \cup {<<f, t>>}
            /\ resp' = Reply("follow_account", <<f, t>>, TRUE, <<f, t, since'[<<f, t>>][1]>>)
       ELSE /\ resp' = Reply("follow_account", <<f, t>>, TRUE, <<>>)
            /\ UNCHANGED <<follows, since>>
    /\ UNCHANGED <<accounts, posts, authored, likes, likedAt, createdBy, now, ranking, parser, driver>>

\* MATCH (follower)-[r:Follows]->(followee) DELETE r RETURN count(r) > 0
unfollow_account(f, t) ==
    /\ follows' = follows \ {<<f, t>>}
    /\ since' = [since EXCEPT ![<<f, t>>] = <<>>]
    /\ resp' = Reply("unfollow_account", <<f, t>>, TRUE, <<(<<f, t>> \in follows)>>)
    /\ UNCHANGED <<accounts, posts, authored, likes, likedAt, createdBy, now, ranking, parser, driver>>

\* if post_id is None: post_id = str(uuid.uuid4()), in a module that does not
\* import uuid: the name lookup raises NameError before any query is sent.
GeneratePostId(p) == IF p = NoPostId THEN "NameError" ELSE p

\* MATCH (a:Account {name: $account_name}): whether the CREATE clauses run.
AddPostMatches(a) == a \in accounts

\* MATCH (a) CREATE (p:Post {...}) CREATE (a)-[r:Posts]->(p), under the
\* constraint post_id_unique. The content of a post is opaque and left out.
add_post(a, p) ==
    /\ IF GeneratePostId(p) \notin PostIds
       THEN /\ resp' = Reply("add_post", <<a, p>>, FALSE, <<>>)
            /\ UNCHANGED <<posts, authored, createdBy>>
       ELSE IF ~AddPostMatches(a)
       THEN /\ resp' = Reply("add_post", <<a, p>>, TRUE, <<>>)
            /\ UNCHANGED <<posts, authored, createdBy>>
       ELSE IF p \in posts
       THEN /\ resp' = Reply("add_post", <<a, p>>, FALSE, <<>>)
            /\ UNCHANGED <<posts, authored, createdBy>>
       ELSE /\ posts' = posts \cup {p}
            /\ authored' = authored \cup (({a} \cap accounts) \X {p})
            /\ createdBy' = [createdBy EXCEPT ![p] = a]
            /\ resp' = Reply("add_post", <<a, p>>, TRUE, <<a, p>>)
    /\ UNCHANGED <<accounts, follows, likes, since, likedAt, now, ranking, parser, driver>>

\* MERGE (a)-[r:Likes]->(p) ON CREATE SET r.timestamp = datetime()
LikeMerge(old, ts) == IF old = <<>> THEN <<ts>> ELSE old

like_post(a, p) ==
    /\ IF a \in accounts /\ p \in posts
       THEN /\ likedAt' = [likedAt EXCEPT ![<<a, p>>] = LikeMerge(@, now)]
            /\ likes' = likes \cup {<<a, p>>}
            /\ resp' = Reply("like_post", <<a, p>>, TRUE, <<a, p, likedAt'[<<a, p>>][1]>>)
       ELSE /\ resp' = Reply("like_post", <<a, p>>, TRUE, <<>>)
            /\ UNCHANGED <<likes, likedAt>>
    /\ UNCHANGED <<accounts, follows, posts, authored, since, createdBy, now, ranking, parser, driver>>

\* MATCH (a)-[r:Likes]->(p) DELETE r RETURN count(r) > 0
unlike_post(a, p) ==
    /\ likes' = likes \ {<<a, p>>}
    /\ likedAt' = [likedAt EXCEPT ![<<a, p>>] = <<>>]
    /\ resp' = Reply("unlike_post", <<a, p>>, TRUE, <<(<<a, p>> \in likes)>>)
    /\ UNCHANGED <<accounts, follows, posts, authored, since, createdBy, now, ranking, parser, driver>>

\* Time passes between two calls.
tick ==
    /\ now < MaxTime
    /\ now' = now + 1
    /\ UNCHANGED <<accounts, follows, posts, authored, likes, since, likedAt, createdBy,
                   resp, ranking, parser, driver>>


\* ------------------------------------------------- find_similar_accounts

FollowSet(a) == {x \in accounts : <<a, x>> \in follows}

\* The number of Follows relationships from a to x (one row of a MATCH each).
FollowRows(a, x) == Len(since[<<a, x>>])

\* MATCH (a:Account {name: $account_name})-[:Follows]->(followed)
\* WITH a, collect(followed) AS user_follows: a grouped aggregation, so an
\* account that is unknown or follows nobody leaves no row at all.
SourceRowsAnyName(a) == {s \in accounts : FollowSet(s) # {}}
SourceRows(a) == {s \in accounts : s = a /\ FollowSet(s) # {}}

\* size(user_follows)
UserFollowCount(s) == SumOver(FollowSet(s), [x \in Names |-> FollowRows(s, x)])

\* size([x IN other_follows WHERE x IN user_follows])
CommonFollows(s, o) ==
    SumOver(FollowSet(o) \cap FollowSet(s), [x \in Names |-> FollowRows(o, x)])

\* toFloat(common_follows) / user_follow_count; a float division by zero is
\* NaN, which no comparison accepts.
NaN == <<0, 0>>
SimilarityScore(common, count) == IF count = 0 THEN NaN ELSE Norm(common, count)

\* WHERE similarity_score > 0
PositiveOrZero(score) == score # NaN
Positive(score) == score # NaN /\ Less(Zero, score)

\* The rows <<similar_account, common_follows, similarity_score>> before the
\* ORDER BY: MATCH (other)-[:Follows]->(their_followed) WHERE other <> a.
SimilarRows(a) ==
    {<<o, CommonFollows(s, o), SimilarityScore(CommonFollows(s, o), UserFollowCount(s))>> :
        <<s, o>> \in {e \in SourceRows(a) \X accounts :
                        /\ e[2] # e[1]
                        /\ FollowSet(e[2]) # {}
                        /\ Positive(SimilarityScore(CommonFollows(e[1], e[2]),
                                                    UserFollowCount(e[1])))}}

\* ORDER BY similarity_score DESC, common_follows DESC
SimilarBefore(x, y) ==
    ~(Less(x[3], y[3]) \/ (x[3] = y[3] /\ x[2] < y[2]))

\* The orders the store may return the rows in (ties are its choice).
SimilarOrderings(a) ==
    {s \in Arrangements(SimilarRows(a)) :
        \A m, n \in 1..Len(s) : m < n => SimilarBefore(s[m], s[n])}

find_similar_accounts(a, limit) ==
    /\ \E s \in SimilarOrderings(a) :
          resp' = Reply("find_similar_accounts", <<a, limit>>, TRUE, Take(s, limit))
    /\ UNCHANGED <<accounts, follows, posts, authored, likes, since, likedAt, createdBy,
                   now, ranking, parser, driver>>

\* No ranking request is in progress and no score is stored.
Idle ==
    /\ gds = FALSE /\ projected = FALSE
    /\ pagerank = [a \in Names |-> Null]
    /\ prevPagerank = [a \in Names |-> Null]
    /\ pc = [r \in Requests |-> "idle"]
    /\ args = [r \in Requests |-> Nil]
    /\ cargs = [r \in Requests |-> Nil]
    /\ i = [r \in Requests |-> 0]
    /\ total_nodes = [r \in Requests |-> -1]
    /\ results = [r \in Requests |-> <<>>]
    /\ err = [r \in Requests |-> Nil]
    /\ log = [r \in Requests |-> <<>>]
    /\ nativeErr = [r \in Requests |-> None]
    /\ overlapped = [r \in Requests |-> FALSE]
    /\ stalled = [r \in Requests |-> FALSE]

\* The store after the schema is set up: no account, no post, no request.
InitGraph ==
    /\ accounts = {} /\ follows = {} /\ posts = {} /\ authored = {} /\ likes = {}
    /\ since = [e \in FollowPairs |-> <<>>]
    /\ likedAt = [e \in LikePairs |-> <<>>]
    /\ createdBy = [p \in PostIds |-> None]
    /\ now = 0
    /\ resp = NoResp
    /\ driver = "open"
    /\ Idle
    /\ NotParsing

\* Accounts follow and unfollow one another, and similarity is queried.
NextSimilar ==
    \/ \E a \in Names : add_account(a)
    \/ \E f, t \in Names : follow_account(f, t)
    \/ \E f, t \in Names : unfollow_account(f, t)
    \/ \E a \in Names, limit \in Limits : find_similar_accounts(a, limit)

SpecSimilar == InitGraph /\ [][NextSimilar]_vars


\* The reply in resp is that of a find_similar_accounts call on the present
\* graph (every other operation replaces resp by its own reply).
SimilarAsked == resp.op = "find_similar_accounts"

\* C12: find_similar_accounts returns an empty sequence, and does not raise,
\* whenever the account follows nobody, be it unknown to the graph or not.
C12_FollowsNobodyEmpty ==
    (SimilarAsked /\ FollowSet(resp.args[1]) = {})
    => (resp.ok /\ resp.rows = <<>>)

C12_Witness ==
    /\ SimilarAsked
    /\ resp.args[1] \in accounts
    /\ FollowSet(resp.args[1]) = {}
    /\ \E o, p \in accounts : o # p /\ <<o, resp.args[1]>> \in follows
                                    /\ <<p, resp.args[1]>> \in follows
    /\ resp.ok /\ resp.rows = <<>>

\* The rows the similarity definition gives for account a: the accounts other
\* than a that share a followed account with it, with |F n Fo| and |F n Fo| / |F|.
SimilarExpected(a) ==
    {<<o, Cardinality(FollowSet(a) \cap FollowSet(o)),
          Norm(Cardinality(FollowSet(a) \cap FollowSet(o)), Cardinality(FollowSet(a)))>> :
        o \in {x \in accounts \ {a} : FollowSet(a) \cap FollowSet(x) # {}}}

\* C13: with a limit of at least the number of accounts, find_similar_accounts
\* returns exactly the accounts o other than the source with |F n Fo| > 0, each
\* once, with common_follows = |F n Fo| and similarity_score = |F n Fo| / |F|.
C13_ExactlyTheSimilarAccounts ==
    (SimilarAsked /\ resp.args[2] >= Cardinality(accounts))
    => /\ {resp.rows[n] : n \in 1..Len(resp.rows)} = SimilarExpected(resp.args[1])
       /\ Len(resp.rows) = Cardinality(SimilarExpected(resp.args[1]))
       /\ \A n \in 1..Len(resp.rows) :
             resp.rows[n][1] # resp.args[1] /\ Less(Zero, resp.rows[n][3])

C13_Witness ==
    /\ SimilarAsked
    /\ resp.args[2] >= Cardinality(accounts)
    /\ Len(resp.rows) = 1
    /\ resp.rows[1][2] = 1 /\ resp.rows[1][3] = <<1, 2>>
    /\ \E o \in accounts \ {resp.args[1]} :
          FollowSet(o) # {} /\ FollowSet(o) \cap FollowSet(resp.args[1]) = {}


\* ------------------------------------------------- recommend_posts

\* MATCH (a {name: $account_name})-[:Follows]->(followed)-[:Likes]->(p):
\* the followed accounts that like post p (count(DISTINCT followed)).
AnyLikers(a, p) == {f \in accounts \ {a} : <<f, p>> \in likes}
FollowedLikers(a, p) == {f \in FollowSet(a) : <<f, p>> \in likes}

\* WHERE NOT (a)-[:Likes]->(p)
NotLikedOrLiked(a, p) == TRUE
NotLiked(a, p) == <<a, p>> \notin likes

\* WITH p, count(DISTINCT followed) AS followed_likes: one row per post that
\* the first MATCH reached, none for a post it did not reach.
Candidates(a) ==
    {p \in posts : a \in accounts /\ FollowedLikers(a, p) # {} /\ NotLiked(a, p)}

\* OPTIONAL MATCH (a)-[:Follows]->(poster)-[:Posts]->(p2) WHERE p = p2
\* WITH ..., count(p2) > 0 AS from_followed
FromFollowed(a, p) == \E poster \in FollowSet(a) : <<poster, p>> \in authored

\* CASE WHEN from_followed THEN 1.5 ELSE 1 END * followed_likes
BoostDouble == <<2, 1>>
Boost == <<3, 2>>
RecommendationScore(a, p) ==
    Mul(IF FromFollowed(a, p) THEN Boost ELSE One,
        <<Cardinality(FollowedLikers(a, p)), 1>>)

\* The rows <<post_id, recommendation_score>> before the ORDER BY (the
\* content of a post is opaque and left out).
RecommendRows(a) == {<<p, RecommendationScore(a, p)>> : p \in Candidates(a)}

\* ORDER BY recommendation_score DESC
RecommendBefore(x, y) == ~Less(x[2], y[2])

RecommendOrderings(a) ==
    {s \in Arrangements(RecommendRows(a)) :
        \A m, n \in 1..Len(s) : m < n => RecommendBefore(s[m], s[n])}

\* recommend_posts, had its query also SET a score on the source account.
recommend_posts_storing(a, limit) ==
    /\ \E s \in RecommendOrderings(a) :
          resp' = Reply("recommend_posts", <<a, limit>>, TRUE, Take(s, limit))
    /\ pagerank' = [pagerank EXCEPT ![a] = One]
    /\ UNCHANGED <<accounts, follows, posts, authored, likes, since, likedAt, createdBy,
                   now, prevPagerank, gds, projected, pc, args, cargs, i, total_nodes,
                   results, err, log, nativeErr, overlapped, stalled, parser, driver>>

recommend_posts(a, limit) ==
    /\ \E s \in RecommendOrderings(a) :
          resp' = Reply("recommend_posts", <<a, limit>>, TRUE, Take(s, limit))
    /\ UNCHANGED <<accounts, follows, posts, authored, likes, since, likedAt, createdBy,
                   now, ranking, parser, driver>>

\* The largest number of Follows relationships in the store a recommendation
\* is asked of.
MaxFollows == 2

\* A store in which every account and every post has been created, p1 by A
\* and p2 by any account (the names are interchangeable), and up to
\* MaxFollows pairs of accounts follow one another.
InitRecommend ==
    /\ accounts = Names
    /\ follows \in {F \in SUBSET Edges(Names) : Cardinality(F) <= MaxFollows}
    /\ posts = PostIds
    /\ createdBy \in {c \in [PostIds -> Names] : c["p1"] = "A"}
    /\ authored = {<<createdBy[p], p>> : p \in PostIds}
    /\ likes = {}
    /\ since = [e \in FollowPairs |-> IF e \in follows THEN <<0>> ELSE <<>>]
    /\ likedAt = [e \in LikePairs |-> <<>>]
    /\ now = 0
    /\ resp = NoResp
    /\ driver = "open"
    /\ Idle
    /\ NotParsing

\* Posts are liked and unliked, and recommendations are queried.
NextRecommend ==
    \/ \E a \in Names, p \in PostIds : like_post(a, p)
    \/ \E a \in Names, p \in PostIds : unlike_post(a, p)
    \/ \E a \in Names, limit \in Limits : recommend_posts(a, limit)

SpecRecommend == InitRecommend /\ [][NextRecommend]_vars


\* The reply in resp is that of a recommend_posts call on the present graph.
RecommendAsked == resp.op = "recommend_posts"

RecommendedPosts == {resp.rows[n][1] : n \in 1..Len(resp.rows)}

\* C14: recommend_posts never returns a post the source account has a Likes
\* edge to, whatever like_post and unlike_post calls came before: a post the
\* source likes stays out of its recommendations until the source unlikes it.
C14_LikedPostsExcluded ==
    RecommendAsked
    => \A p \in RecommendedPosts : <<resp.args[1], p>> \notin likes

C14_Witness ==
    /\ RecommendAsked
    /\ \E p \in posts : /\ <<resp.args[1], p>> \in likes
                        /\ FollowedLikers(resp.args[1], p) # {}
                        /\ p \notin RecommendedPosts
    /\ resp.rows # <<>>

\* The number of distinct accounts followed by a that like p.
FollowedLikeCount(a, p) ==
    Cardinality({f \in accounts : <<a, f>> \in follows /\ <<f, p>> \in likes})

AuthorFollowed(a, p) == <<a, createdBy[p]>> \in follows

\* C15: every post recommend_posts returns has recommendation_score =
\* followedLikeCount * 1.5 when its author is followed by the source account
\* and followedLikeCount * 1.0 otherwise.
C15_BoostIsOneAndAHalfOrOne ==
    RecommendAsked
    => \A n \in 1..Len(resp.rows) :
          resp.rows[n][2] =
             IF AuthorFollowed(resp.args[1], resp.rows[n][1])
             THEN Norm(3 * FollowedLikeCount(resp.args[1], resp.rows[n][1]), 2)
             ELSE <<FollowedLikeCount(resp.args[1], resp.rows[n][1]), 1>>

C15_Witness ==
    /\ RecommendAsked
    /\ Len(resp.rows) = 2
    /\ resp.rows[1][2] = <<3, 1>>
    /\ resp.rows[2][2] = <<2, 1>>
    /\ AuthorFollowed(resp.args[1], resp.rows[1][1])
    /\ ~AuthorFollowed(resp.args[1], resp.rows[2][1])

\* C16: with a limit of at least the number of posts, recommend_posts returns
\* exactly the posts liked by an account the source follows, less the posts
\* the source likes, each once, scored on the number of distinct followed
\* accounts that like it.
C16_ExactlyTheCandidates ==
    (RecommendAsked /\ resp.args[2] >= Cardinality(posts))
    => /\ RecommendedPosts =
            {p \in posts : FollowedLikeCount(resp.args[1], p) > 0}
               \ {p \in posts : <<resp.args[1], p>> \in likes}
       /\ Len(resp.rows) = Cardinality(RecommendedPosts)
       /\ \A n \in 1..Len(resp.rows) :
             resp.rows[n][2] \in
                {<<FollowedLikeCount(resp.args[1], resp.rows[n][1]), 1>>,
                 Norm(3 * FollowedLikeCount(resp.args[1], resp.rows[n][1]), 2)}

C16_Witness ==
    /\ RecommendAsked
    /\ resp.args[2] >= Cardinality(posts)
    /\ Len(resp.rows) = 1
    /\ FollowedLikeCount(resp.args[1], resp.rows[1][1]) = 1
    /\ \E p \in posts, o \in accounts :
          /\ <<o, p>> \in likes /\ <<resp.args[1], o>> \notin follows
          /\ o # resp.args[1] /\ p \notin RecommendedPosts
    /\ \E p \in posts : <<resp.args[1], p>> \in likes /\ FollowedLikeCount(resp.args[1], p) > 0


\* ------------------------------------------------- relationships and time

\* The graph proper: nodes, relationships and their timestamps.
graph == <<accounts, follows, posts, authored, likes, since, likedAt>>

\* A store with two accounts and one post of one of them, and no relationship
\* yet; the third name and the second post_id are unknown to it.
InitStamps ==
    /\ accounts \in {S \in SUBSET Names : Cardinality(S) = 2}
    /\ follows = {}
    /\ posts = {"p1"}
    /\ \E a \in accounts : /\ createdBy = [p \in PostIds |-> IF p = "p1" THEN a ELSE None]
                           /\ authored = {<<a, "p1">>}
    /\ likes = {}
    /\ since = [e \in FollowPairs |-> <<>>]
    /\ likedAt = [e \in LikePairs |-> <<>>]
    /\ now = 0
    /\ resp = NoResp
    /\ driver = "open"
    /\ Idle
    /\ NotParsing

\* Relationships are created and removed while time passes.
NextStamps ==
    \/ \E f, t \in Names : follow_account(f, t)
    \/ \E f, t \in Names : unfollow_account(f, t)
    \/ \E a \in Names, p \in PostIds : like_post(a, p)
    \/ \E a \in Names, p \in PostIds : unlike_post(a, p)
    \/ tick

SpecStamps == InitStamps /\ [][NextStamps]_vars

\* At most one Follows relationship per ordered pair of accounts and at most
\* one Likes relationship per account and post.
AtMostOneEdge ==
    /\ \A e \in FollowPairs : Len(since[e]) <= 1 /\ (e \in follows <=> since[e] # <<>>)
    /\ \A e \in LikePairs : Len(likedAt[e]) <= 1 /\ (e \in likes <=> likedAt[e] # <<>>)

\* A follow_account or like_post call that finds its relationship in place
\* leaves the graph as it is, the timestamp of the relationship included.
RepeatChangesNothing ==
    /\ \A f, t \in Names :
          (<<f, t>> \in follows /\ follow_account(f, t)) => UNCHANGED graph
    /\ \A a \in Names, p \in PostIds :
          (<<a, p>> \in likes /\ like_post(a, p)) => UNCHANGED graph

\* C17: after any sequence of follow_account, unfollow_account, like_post and
\* unlike_post there is at most one Follows edge per ordered pair and one
\* Likes edge per (account, post); repeating follow_account or like_post with
\* the same arguments leaves the graph and the edge's first timestamp unchanged.
C17_IdempotentEdges == []AtMostOneEdge /\ [][RepeatChangesNothing]_vars

\* A follow_account call served at time 1 found the relationship made at time 0.
C17_Witness ==
    /\ resp.op = "follow_account"
    /\ resp.at = 1
    /\ resp.rows # <<>>
    /\ since[<<resp.args[1], resp.args[2]>>] = <<0>>
    /\ resp.rows[3] = 0
    /\ \E e \in LikePairs : likedAt[e] = <<0>>


\* ------------------------------------------------- posts and their authors

\* The post_id a caller of add_post passes.
PostIdArgs == PostIds \cup {NoPostId}

\* Accounts and posts are created.
NextPosts ==
    \/ \E a \in Names : add_account(a)
    \/ \E a \in Names, p \in PostIdArgs : add_post(a, p)

SpecPosts == InitGraph /\ [][NextPosts]_vars

\* Every post has exactly one incoming Posts edge, from the account named in
\* the add_post call that created it.
OneAuthor ==
    /\ \A p \in posts :
          {a \in Names : <<a, p>> \in authored} = {createdBy[p]}
    /\ \A e \in authored : e[1] \in accounts /\ e[2] \in posts

\* An add_post call for an unknown account name creates nothing and returns
\* an empty result.
UnknownAccountCreatesNothing ==
    \A a \in Names, p \in PostIdArgs :
        (a \notin accounts /\ add_post(a, p))
        => (UNCHANGED graph /\ resp'.ok /\ resp'.rows = <<>>)

\* C18: after any sequence of add_account and add_post every Post has exactly
\* one incoming Posts edge, from the account named in the call that created
\* it; add_post for an account name that does not exist creates neither a
\* Post nor an edge and returns an empty result.
C18_OneAuthorPerPost == []OneAuthor /\ [][UnknownAccountCreatesNothing]_vars

\* C19: add_post called without a post_id for an existing account generates
\* an identifier and creates the post, so that the route answers success.
C19_PostIdGenerated ==
    (resp.op = "add_post" /\ resp.args[2] = NoPostId /\ resp.args[1] \in accounts)
    => (resp.ok /\ resp.rows # <<>>)


\* ------------------------------------------------- profile reports

\* The lines a profile report opens with: none, the summary line of the
\* documented example, or the header, planning and memory lines the patterns
\* are written for.
ExampleSummary ==
    "Summary: 842 total data-access operations in 3.210 ms. planning: 0.450 ms. memory [1.2 MB]\n"

Headers ==
    {"",
     ExampleSummary,
     "Cypher version: 5, planner: COST, runtime: PIPELINED. 842 total db hits in 3.210 ms.\nplanning: 0.450 ms\nmemory [1.2 MB]\n"}

\* The operator blocks of a report: none, those of the documented example,
\* blocks that lack some statistic, or a block that names its index in
\* parentheses.
ExampleBlocks ==
    "+-Operator1 (db hits[210], rows[50], elapsed[1 ms], index[account_name_unique])\n"
    \o "+-Operator2 (db hits[632], rows[50], elapsed[2 ms])\n"

\* n copies of a text, one after the other.
RECURSIVE Repeat(_, _)
Repeat(s, n) ==
    IF n = 0 THEN ""
    ELSE LET half == Repeat(s, n \div 2)
         IN  IF n % 2 = 0 THEN half \o half ELSE half \o half \o s

BlockTexts ==
    {"",
     ExampleBlocks,
     "+-Filter (rows[5], elapsed[7 ms])\n+-Expand (db hits[3], elapsed[4 ms])\n",
     "+NodeIndexSeek (account_name_unique) db hits[3] rows[1] elapsed[4 ms]\n"}

ExampleCache == "cache hits: 5 cache misses: 1"

CacheTexts == {"", ExampleCache}

\* A report of one block whose row count has one digit more than int()
\* accepts.
LongCountReport == "+-Scan (rows[" \o Repeat("9", MaxStrDigits + 1) \o "])\n"

Reports ==
    {h \o b \o c : <<h, b, c>> \in Headers \X BlockTexts \X CacheTexts}
        \cup {LongCountReport}

\* The profile-report fragment of the documented example.
ExampleReport == ExampleSummary \o ExampleBlocks \o ExampleCache

\* parse_profile_metrics has been called on a report and set up its metrics.
InitParse ==
    /\ accounts = {} /\ follows = {} /\ posts = {} /\ authored = {} /\ likes = {}
    /\ since = [e \in FollowPairs |-> <<>>]
    /\ likedAt = [e \in LikePairs |-> <<>>]
    /\ createdBy = [p \in PostIds |-> None]
    /\ now = 0
    /\ resp = NoResp
    /\ driver = "open"
    /\ Idle
    /\ profile_string \in Reports
    /\ metrics = DefaultMetrics
    /\ operator_blocks = <<>>
    /\ operators = <<>>
    /\ parse_pc = "time"

NextParse ==
    \/ time_match
    \/ planning_match
    \/ memory_match
    \/ find_operator_blocks
    \/ for_block
    \/ end_of_blocks
    \/ cache_hits_match
    \/ cache_misses_match

SpecParse == InitParse /\ [][NextParse]_vars


\* The call on the documented example has returned.
ExampleParsed == parse_pc = "returned" /\ profile_string = ExampleReport

\* The fields read straight off the report, each with its pattern, the pair
\* of groups that hold its text, and whether the text is a float.
ReportFields ==
    {<<"planning_time_ms", PlanningPattern, 2, 4, TRUE>>,
     <<"cache_hits", CacheHitsPattern, 2, 2, FALSE>>,
     <<"cache_misses", CacheMissesPattern, 2, 2, FALSE>>}

\* A field is filled from its match, and keeps its default without one.
FilledOrDefault(f) ==
    LET m == Search(f[2], profile_string, 0)
        text == Group(profile_string, m, f[3], f[4])
    IN  metrics[f[1]] = (IF m = <<>> THEN DefaultMetrics[f[1]]
                         ELSE IF f[5] THEN ToFloat(text) ELSE ToInt(text))

Returned ==
    /\ parse_pc = "returned"
    /\ \A f \in ReportFields : FilledOrDefault(f)
    /\ metrics.memory_usage =
         (LET m == Search(MemoryPattern, profile_string, 0)
          IN  IF m = <<>> THEN "" ELSE Group(profile_string, m, 5, 8))
    /\ ~Matches(TimePattern, profile_string)
         => metrics.total_db_hits = 0 /\ metrics.query_time_ms = Zero
    /\ ~Matches(BlockPattern, profile_string)
         => /\ metrics.operators = <<>> /\ metrics.indexes_used = <<>>
            /\ metrics.db_hits = 0 /\ metrics.rows = 0 /\ metrics.elapsed_time_ms = 0
    /\ profile_string = "" => metrics = DefaultMetrics

\* C21: parse_profile_metrics is total: the call on any report returns
\* (it never raises), every field whose pattern does not match keeps its
\* default, every matching field is filled, and the empty text gives the
\* all-default metrics.
C21_ParseTotal ==
    /\ parse_pc # "raised"
    /\ parse_pc = "returned" => Returned

\* The call on the report with the long row count has raised.
C21_LongCountRaises == parse_pc = "raised" /\ profile_string = LongCountReport

\* The statement as documented: the example parses to total_db_hits = 842,
\* query_time_ms = 3.210, planning_time_ms = 0.450, memory_usage = "1.2 MB",
\* db_hits = 842, rows = 50, elapsed_time_ms = 2,
\* indexes_used = ["account_name_unique"], cache_hits = 5, cache_misses = 1.
C20_ExampleAsDocumented ==
    ExampleParsed
    => /\ metrics.total_db_hits = 842
       /\ metrics.query_time_ms = Norm(3210, 1000)
       /\ metrics.planning_time_ms = Norm(450, 1000)
       /\ metrics.memory_usage = "1.2 MB"
       /\ metrics.db_hits = 842
       /\ metrics.rows = 50
       /\ metrics.elapsed_time_ms = 2
       /\ metrics.indexes_used = <<"account_name_unique">>
       /\ metrics.cache_hits = 5
       /\ metrics.cache_misses = 1

\* C20: parse_profile_metrics applied to the profile-report fragment of the
\* documented example returns total_db_hits = 0, query_time_ms = 0 and
\* indexes_used = [] (its summary line is not the "Cypher version: ..." header
\* and its index name is not in parentheses), with planning_time_ms = 0.450,
\* memory_usage = "1.2 MB", db_hits = 842, rows = 50, elapsed_time_ms = 2,
\* cache_hits = 5 and cache_misses = 1.
C20_ExampleParse ==
    ExampleParsed
    => /\ metrics.total_db_hits = 0
       /\ metrics.query_time_ms = Zero
       /\ metrics.planning_time_ms = Norm(450, 1000)
       /\ metrics.memory_usage = "1.2 MB"
       /\ metrics.db_hits = 842
       /\ metrics.rows = 50
       /\ metrics.elapsed_time_ms = 2
       /\ metrics.indexes_used = <<>>
       /\ metrics.cache_hits = 5
       /\ metrics.cache_misses = 1

C20_Witness ==
    /\ ExampleParsed
    /\ Len(metrics.operators) = 2
    /\ metrics.operators[1].db_hits = 210
    /\ metrics.operators[2].db_hits = 632



\* The operator entries of the returned metrics, one per block in report
\* order, each with the row count of its block (0 for a block without one).
LastOperator == metrics.operators[Len(metrics.operators)]

\* C22: the rows metric a call returns is the row count of the last operator
\* block of the report, zero when that block has no row count (and zero for
\* a report without blocks), never the count of an earlier block.
C22_RowsOfLastBlock ==
    parse_pc = "returned"
    => metrics.rows = (IF metrics.operators = <<>> THEN 0 ELSE LastOperator.rows)

\* A returned call whose last block has no row count while an earlier one has.
C22_EarlierRowsKept ==
    /\ parse_pc = "returned"
    /\ Len(metrics.operators) = 2
    /\ metrics.operators[1].rows = 5
    /\ ~Matches(RowsPattern, "+-Expand (db hits[3], elapsed[4 ms])\n")
    /\ LastOperator.name = "Expand"
    /\ metrics.rows = 5



\* ------------------------------------------- queries during a ranking

\* A store without the GDS library holding every account and post, up to
\* MaxFollows Follows relationships, and the likes of B for p1 and of C for
\* p2; no request has been made yet.
InitReadOnly ==
    /\ accounts = Names
    /\ follows \in {F \in SUBSET Edges(Names) : Cardinality(F) <= MaxFollows}
    /\ posts = PostIds
    /\ createdBy = [p \in PostIds |-> IF p = "p1" THEN "A" ELSE "B"]
    /\ authored = {<<createdBy[p], p>> : p \in PostIds}
    /\ likes = {<<"B", "p1">>, <<"C", "p2">>}
    /\ since = [e \in FollowPairs |-> IF e \in follows THEN <<0>> ELSE <<>>]
    /\ likedAt = [e \in LikePairs |-> IF e \in likes THEN <<0>> ELSE <<>>]
    /\ now = 0
    /\ resp = NoResp
    /\ driver = "open"
    /\ Idle
    /\ NotParsing

\* A ranking is between two round-trips of the custom protocol.
Ranking == \E r \in Requests : pc[r] \in CustomRounds

\* One ranking is computed by the custom protocol while similarity and
\* recommendations are queried between its round-trips.
NextReadOnly ==
    \/ \E r \in Requests :
        \/ \E p \in Params : Serial(r) /\ calculate_pagerank(r, p)
        \/ native_fail(r, "unsupported")
        \/ init_query(r)
        \/ update_prev_query(r)
        \/ iteration_query(r)
        \/ result_query(r)
        \/ cleanup_query(r)
    \/ \E a \in Names, limit \in Limits : Ranking /\ find_similar_accounts(a, limit)
    \/ \E a \in Names, limit \in Limits : Ranking /\ recommend_posts(a, limit)

SpecReadOnly == InitReadOnly /\ [][NextReadOnly]_vars

\* A step that answers a similarity or recommendation query leaves the graph,
\* the stored scores and the ranking in progress as they were.
QueryChangesNothing ==
    (resp' # resp) => UNCHANGED <<graph, createdBy, store, ranking>>

\* The rows of a returned ranking are those the same call computes with no
\* query running beside it.
ResultAsAlone ==
    \A r \in Requests :
        pc[r] = "returned"
        => RowSet(results[r]) = AloneRows(accounts, follows, cargs[r][1], cargs[r][2])

\* C23: find_similar_accounts and recommend_posts are read-only: a call of
\* either changes no account, post, edge or property, and a ranking between
\* whose round-trips they run returns the rows it returns on its own.
C23_QueriesReadOnly == []ResultAsAlone /\ [][QueryChangesNothing]_vars

\* A ranking has returned rows that differ between accounts after a
\* recommendation with rows was answered between its round-trips.
C23_Witness ==
    /\ \E r \in Requests :
          /\ pc[r] = "returned"
          /\ \E m, n \in 1..Len(results[r]) : results[r][m][2] # results[r][n][2]
    /\ resp.op = "recommend_posts"
    /\ resp.rows # <<>>



\* ------------------------------------------------- one update round

\* The score the update rule gives account a from the snapshot:
\* (1 - damping) + damping * sum over followers f of prev(f) / outDegree(f).
RuleScore(a, d) ==
    Add(OneMinus(d), Mul(d, IncomingScore(Followers(a, accounts, follows), follows, prevPagerank)))

\* Request r is at the second query of a round, its snapshot taken.
SnapshotTaken(r) == pc[r] = "update" => \A a \in accounts : prevPagerank[a] = pagerank[a]

\* The step is the iteration_query of request r.
UpdateStep(r) == pc[r] = "update" /\ i'[r] = i[r] + 1

\* The second query of a round leaves the snapshot alone and gives every
\* account the score of the rule, computed from the snapshot.
RoundReadsSnapshot ==
    \A r \in Requests :
        UpdateStep(r)
        => /\ prevPagerank' = prevPagerank
           /\ \A a \in accounts : pagerank'[a] = RuleScore(a, cargs[r][2])

\* The same for the accounts that have a follower.
FollowedReadSnapshot ==
    \A r \in Requests :
        UpdateStep(r)
        => /\ prevPagerank' = prevPagerank
           /\ \A a \in UnwoundAccounts(accounts, follows) :
                 pagerank'[a] = RuleScore(a, cargs[r][2])

\* C24: in every update round the snapshot prevPagerank <- pagerank is taken
\* for every account before any score is rewritten, and the new score of
\* every account is (1 - damping) + damping * the sum over its followers f of
\* prevPagerank(f) / outDegree(f), read from that snapshot only.
C24_RoundFromSnapshot ==
    [](\A r \in Requests : SnapshotTaken(r)) /\ [][RoundReadsSnapshot]_vars

\* What does hold of a round: the snapshot precedes the update, and every
\* account with a follower gets the score of the rule from the snapshot.
FollowedRoundFromSnapshot ==
    [](\A r \in Requests : SnapshotTaken(r)) /\ [][FollowedReadSnapshot]_vars



\* ------------------------------------------------- round-trips of a call

\* The round-trips of the custom protocol of request r, in the order they
\* were made (the first entry of log is the native attempt before it).
CustomLog(r) == Tail(log[r])

\* The queries of k rounds of the loop.
RECURSIVE Rounds(_)
Rounds(k) == IF k = 0 THEN <<>> ELSE <<"snapshot", "update">> \o Rounds(k - 1)

\* Request r has returned from the custom protocol on a non-empty graph.
CustomReturned(r) == pc[r] = "returned" /\ Custom(r) /\ total_nodes[r] > 0

\* The statement as documented: iterations + 2 round-trips.
C25_RoundTripsAsDocumented ==
    \A r \in Requests : CustomReturned(r) => Len(CustomLog(r)) = cargs[r][1] + 2

\* C25: a custom ranking on a non-empty graph makes exactly
\* 2 * iterations + 3 round-trips, one after the other: one init, then for
\* each of the `iterations` rounds a snapshot and an update, then one read
\* and one cleanup.
C25_TwoRoundTripsPerRound ==
    \A r \in Requests :
        CustomReturned(r)
        => /\ CustomLog(r) = <<"init">> \o Rounds(cargs[r][1]) \o <<"read", "cleanup">>
           /\ Len(CustomLog(r)) = 2 * cargs[r][1] + 3

C25_Witness ==
    \E r \in Requests :
        /\ CustomReturned(r)
        /\ cargs[r][1] = 2
        /\ Len(CustomLog(r)) = 7



\* ------------------------------------------- accounts with properties

\* The value a request gives an opaque property.
Opaque == <<7, 1>>

\* The properties POST /api/accounts passes on for each name (Null: the
\* request has no such key): A comes with pagerank and prevPagerank, B with
\* pagerank only, C with neither.
GivenProperties ==
    [a \in Names |->
        [pagerank |-> IF a \in {"A", "B"} THEN Opaque ELSE Null,
         prevPagerank |-> IF a = "A" THEN Opaque ELSE Null]]

\* CREATE (a:Account $properties) with the properties of the request: the
\* node gets every key of the map, pagerank and prevPagerank among them.
add_account_properties(name) ==
    /\ IF name \in accounts
       THEN /\ resp' = Reply("add_account", <<name>>, FALSE, <<>>)
            /\ UNCHANGED <<accounts, pagerank, prevPagerank>>
       ELSE /\ accounts' = accounts \cup {name}
            /\ pagerank' = [pagerank EXCEPT ![name] = GivenProperties[name].pagerank]
            /\ prevPagerank' = [prevPagerank EXCEPT ![name] = GivenProperties[name].prevPagerank]
            /\ resp' = Reply("add_account", <<name>>, TRUE, <<name>>)
    /\ UNCHANGED <<follows, posts, authored, likes, since, likedAt, createdBy, now,
                   gds, projected, pc, args, cargs, i, total_nodes, results, err, log,
                   nativeErr, overlapped, stalled, parser, driver>>

\* Accounts are created with their properties while no ranking is computed,
\* and rankings are computed by the custom protocol, one at a time.
NextProperties ==
    \/ \E a \in Names : (\A r \in Requests : pc[r] = "idle") /\ add_account_properties(a)
    \/ \E r \in Requests :
        \/ \E p \in Params : Serial(r) /\ calculate_pagerank(r, p)
        \/ native_fail(r, "unsupported")
        \/ init_query(r)
        \/ update_prev_query(r)
        \/ iteration_query(r)
        \/ result_query(r)
        \/ cleanup_query(r)
        \/ respond(r)

SpecProperties == InitGraph /\ [][NextProperties]_vars

\* C26: when a custom ranking has returned, every account still has the
\* pagerank and prevPagerank properties it was created with, with the values
\* it was given.
C26_PropertiesKept ==
    \A r \in Requests :
        (pc[r] = "returned" /\ Custom(r))
        => \A a \in accounts :
              /\ pagerank[a] = GivenProperties[a].pagerank
              /\ prevPagerank[a] = GivenProperties[a].prevPagerank

\* A custom ranking has returned and account A, created with pagerank 7, has
\* no pagerank property.
C26_PropertyRemoved ==
    \E r \in Requests :
        /\ pc[r] = "returned" /\ Custom(r)
        /\ "A" \in accounts
        /\ GivenProperties["A"].pagerank = Opaque
        /\ pagerank["A"] = Null



\* ------------------------------------------------- requests of the API

\* cleanup, registered with @app.teardown_appcontext: Flask calls it when the
\* application context of a request ends, that is after every request.
cleanup == driver' = "closed"

\* self.driver.session() of execute_query on a closed driver: depending on the
\* version of the driver the call raises, and the route answers with
\* success false, or it only warns and a connection is opened again.
SessionRaises == driver = "closed"

\* POST /api/accounts: graph_manager.add_account, then the teardown.
api_add_account(name) ==
    /\ \/ /\ SessionRaises
          /\ resp' = Reply("add_account", <<name>>, FALSE, <<>>)
          /\ UNCHANGED accounts
       \/ IF name \in accounts
          THEN /\ resp' = Reply("add_account", <<name>>, FALSE, <<>>)
               /\ UNCHANGED accounts
          ELSE /\ accounts' = accounts \cup {name}
               /\ resp' = Reply("add_account", <<name>>, TRUE, <<name>>)
    /\ cleanup
    /\ UNCHANGED <<follows, posts, authored, likes, since, likedAt, createdBy, now, ranking, parser>>

\* POST /api/accounts/follow: graph_manager.follow_account, then the teardown.
api_follow_account(f, t) ==
    /\ \/ /\ SessionRaises
          /\ resp' = Reply("follow_account", <<f, t>>, FALSE, <<>>)
          /\ UNCHANGED <<follows, since>>
       \/ IF FollowMatches(f, t)
          THEN /\ since' = [since EXCEPT ![<<f, t>>] = FollowMerge(@, now)]
               /\ follows' = follows \cup {<<f, t>>}
               /\ resp' = Reply("follow_account", <<f, t>>, TRUE, <<f, t, since'[<<f, t>>][1]>>)
          ELSE /\ resp' = Reply("follow_account", <<f, t>>, TRUE, <<>>)
               /\ UNCHANGED <<follows, since>>
    /\ cleanup
    /\ UNCHANGED <<accounts, posts, authored, likes, likedAt, createdBy, now, ranking, parser>>

\* The application serves requests one after the other.
NextApp ==
    \/ \E a \in Names : api_add_account(a)
    \/ \E f, t \in Names : api_follow_account(f, t)

SpecApp == InitGraph /\ [][NextApp]_vars

\* C27: across any sequence of API requests the connection of the graph
\* manager is open: no request leaves it closed for the request after it.
C27_ConnectionStaysOpen == driver = "open"

\* A request has been answered and the connection is closed.
C27_ClosedAfterRequest == resp.op = "add_account" /\ resp.ok /\ driver = "closed"



\* ------------------------------------------------- repeated native calls

\* The step is a native attempt of request r that succeeds.
NativeSucceeds(r) == pc[r] = "native" /\ pc'[r] = "returned"

\* A native success leaves the store as it found it.
NativeLeavesNoState == \A r \in Requests : NativeSucceeds(r) => UNCHANGED store

\* C28: calculate_pagerank is repeatable: a call that succeeds through the
\* native algorithm leaves no state in the store (the projection
\* 'socialGraph' included), so a call after it takes the native path again.
C28_NativeRepeatable ==
    [][NativeLeavesNoState]_vars
        /\ [](\A r \in Requests : (gds /\ nativeErr[r] = "execution") => ~projected)

\* After a native success left the projection in the catalog, a later call
\* on the same graph failed its native attempt and returned the rows of the
\* custom protocol.
C28_SecondCallFallsBack ==
    \E r \in Requests :
        /\ projected
        /\ pc[r] = "returned"
        /\ nativeErr[r] = "execution"
        /\ results[r] # NativeRows(accounts)



\* ------------------------------------------------- following oneself

NoSelfFollow == \A a \in Names : <<a, a>> \notin follows

\* The step answers follow_account(x, x).
SelfFollowStep == resp'.op = "follow_account" /\ resp'.args[1] = resp'.args[2]

\* follow_account(x, x) returns {} and leaves the graph as it was.
SelfFollowChangesNothing ==
    SelfFollowStep => (resp'.rows = <<>> /\ UNCHANGED graph)

\* C29: after any sequence of add_account, follow_account and
\* unfollow_account no account has a Follows edge to itself, and
\* follow_account(x, x) creates no edge, returns an empty result and leaves
\* the graph unchanged.
C29_NoSelfFollow == []NoSelfFollow /\ [][SelfFollowChangesNothing]_vars

\* follow_account("A", "A") has been answered for an existing account A that
\* follows another account.
C29_Witness ==
    /\ resp.op = "follow_account"
    /\ resp.args = <<"A", "A">>
    /\ resp.rows = <<>>
    /\ "A" \in accounts
    /\ <<"A", "B">> \in follows



\* ------------------------------------------------- followers' out-degree

\* Every follower iteration_query unwinds has an outgoing Follows edge, so
\* its CASE takes the branch outlinks_count > 0.
FollowersHaveOutlinks ==
    \A a \in accounts :
        \A f \in Followers(a, accounts, follows) : OutDegree(f, follows) >= 1

\* The scores an update gives are the same whatever snapshot value an
\* account without outgoing Follows edge holds.
ZeroOutDegreeInert ==
    \A r \in Requests :
        UpdateStep(r)
        => \A z \in accounts :
              OutDegree(z, follows) = 0
              => \A b \in accounts \ {z} :
                    IterationQuery(accounts, follows, [prevPagerank EXCEPT ![z] = Opaque],
                                   pagerank, cargs[r][2])[b] = pagerank'[b]

\* C30: in the custom ranking every account counted as a follower has
\* out-degree at least 1, so no round takes the zero-out-degree branch, and
\* an account with zero out-degree affects no other account's score.
C30_FollowersHaveOutlinks == []FollowersHaveOutlinks /\ [][ZeroOutDegreeInert]_vars

\* A custom ranking has done a round on a graph where an account without
\* outgoing edge has a follower.
C30_Witness ==
    \E r \in Requests :
        /\ Custom(r) /\ i[r] >= 1
        /\ \E z \in accounts :
              /\ OutDegree(z, follows) = 0
              /\ Followers(z, accounts, follows) # {}


=============================================================================
